---- MODULE Spec2Model ----
(***************************************************************************)
(* Booking form (BookingForm) and its remote data gateway (ApiService).    *)
(*                                                                         *)
(* The component state (useState slots, the react-hook-form values), the   *)
(* requests in flight and the notifications are the variables; every       *)
(* event handler or promise continuation is one action.  The spreadsheet   *)
(* backend is the environment: it answers each request with one of the     *)
(* outcomes of ReadOutcomes / WriteOutcomes.                               *)
(***************************************************************************)
EXTENDS Integers, Sequences, FiniteSets, TLC

VARIABLES
    options,        \* useState<OptionData[]>
    expenses,       \* useState<ExpenseData[]>
    donors,         \* useState<DonorData[]>
    bookings,       \* useState<BookingData[]>, the rows of the list view
    loading,        \* useState(true)
    submitting,     \* useState(false)
    form,           \* react-hook-form values
    isSubmitted,    \* react-hook-form formState.isSubmitted
    mountRes,       \* loadData: the promises given to Promise.all
    failedReads,    \* the mount reads that came back without success
    saveReqs,       \* the saveBooking requests in flight (their bodies)
    bookingsReqs,   \* onSubmit: the getBookings re-fetches in flight, each holding bookingData.id
    result,         \* onSubmit: the envelope saveBooking returned last
    bookingsRes,    \* onSubmit: the envelope the re-fetch returned last
    toasts,         \* notifications of the current submission attempt
    mountToasts,    \* notifications fired by loadData
    backend,        \* the booking rows the spreadsheet has stored (their ids)
    writes,         \* number of saveBooking requests issued
    writeLimit,     \* number of submissions the run explores
    sheet           \* the reference rows the spreadsheet serves

vars == <<options, expenses, donors, bookings, loading, submitting, form, isSubmitted,
          mountRes, failedReads, saveReqs, bookingsReqs, result, bookingsRes,
          toasts, mountToasts, backend, writes, writeLimit, sheet>>

(***************************************************************************)
(* Bounds                                                                  *)
(***************************************************************************)
MaxWrites == 1
MaxAttempts == 2

(***************************************************************************)
(* Values                                                                  *)
(***************************************************************************)
Range(seq) == {seq[i] : i \in 1..Len(seq)}

\* a form field that was never set (JavaScript undefined)
Undefined == "<undefined>"

Falsy(s) == s \in {Undefined, ""}

\* a || b on strings
OrElse(a, b) == IF Falsy(a) THEN b ELSE a

NoDate == [y |-> 0, m |-> 0, d |-> 0]
Today == [y |-> 2026, m |-> 11, d |-> 6]
OtherDay == [y |-> 2026, m |-> 1, d |-> 25]
Days == {Today, OtherDay}

DigitChar == <<"0", "1", "2", "3", "4", "5", "6", "7", "8", "9">>

RECURSIVE Pad(_, _)
\* the decimal digits of n, zero-padded to width w
Pad(n, w) == IF w = 0 THEN <<>> ELSE Append(Pad(n \div 10, w - 1), DigitChar[(n % 10) + 1])

\* date-fns format(date, 'yyyy-MM-dd')
format(date) == Pad(date.y, 4) \o <<"-">> \o Pad(date.m, 2) \o <<"-">> \o Pad(date.d, 2)

\* texts typed into the amount input; the form starts with the number 0
AmountInputs == {"0", "abc", "-1", "0.005", "0.01"}

\* Number(text), in thousandths
CoerceNumber(text) ==
    CASE text = "0" -> [nan |-> FALSE, mills |-> 0]
      [] text = "-1" -> [nan |-> FALSE, mills |-> -1000]
      [] text = "0.005" -> [nan |-> FALSE, mills |-> 5]
      [] text = "0.01" -> [nan |-> FALSE, mills |-> 10]
      [] OTHER -> [nan |-> TRUE, mills |-> 0]

\* .min(0.01, ...), in thousandths
MinAmount == 10

ParticularsInputs == {"", "rent"}

\* the fields the user goes on editing while a request is outstanding
InFlightFields == {"particulars"}

\* Math.random().toString(36).substr(2, 8): a short random token
Ids == {"id1", "id2"}

(***************************************************************************)
(* The spreadsheet behind the endpoint                                     *)
(***************************************************************************)
OptionRow(type, category, department, from, to, personal) ==
    [Type |-> type, Category |-> category, Department |-> department,
     FromDepartment |-> from, ToDepartment |-> to, PersonalAccountDetails |-> personal]

SheetOptions == <<
    OptionRow("Expense", "Stationery", "Books Dasosmi", "Books-Dasosmi", "Personal Account", "Acct-1"),
    OptionRow("Expense", "", "Expenses", "Expenses-Dasosmi", "Bank", ""),
    OptionRow("Donation", "General", "Dasosmi", "Dasosmi", "Bank", "") >>

SheetExpenses == <<
    [Items |-> "A", Details |-> "x"],
    [Items |-> "B", Details |-> "z"] >>

SheetDonors == <<
    [DonorID |-> "D1", DonorName |-> "Asha", Address |-> "Pune",
     MobileNoDot |-> "", MobileNo |-> "98765"] >>

SheetBookings == << [id |-> "id0"] >>

\* the reference tabs of the spreadsheet
MainSheet == [options |-> SheetOptions, expenses |-> SheetExpenses, donors |-> SheetDonors]

\* an options tab listing one row per pairing of departments: a category
\* recurs, and a department name recurs in its other spelling
PairingOptions == <<
    OptionRow("Expense", "Stationery", "Books Dasosmi", "Books-Dasosmi", "Personal Account", "Acct-1"),
    OptionRow("Expense", "Stationery", "Books Dasosmi", "Corporate Dasosmi", "Bank", ""),
    OptionRow("Order", "Novels", "Books Dasosmi", "Books Dasosmi", "Bank", ""),
    OptionRow("Expense", "Travel", "Books-Dasosmi", "Expenses-Dasosmi", "", "") >>

CatalogExample == <<
    [Items |-> "A", Details |-> "x"],
    [Items |-> "A", Details |-> "y"],
    [Items |-> "B", Details |-> "z"],
    [Items |-> "C", Details |-> ""] >>

\* a catalog with two budget lines of the same item and detail
CatalogRepeated == <<
    [Items |-> "A", Details |-> "x"],
    [Items |-> "A", Details |-> "x"],
    [Items |-> "B", Details |-> "z"] >>

\* donors with the mobile number under one spelling, both, or none
MobileDonors == <<
    [DonorID |-> "D1", DonorName |-> "Asha", Address |-> "Pune",
     MobileNoDot |-> "", MobileNo |-> "98765"],
    [DonorID |-> "D2", DonorName |-> "Bala", Address |-> "Goa",
     MobileNoDot |-> "11111", MobileNo |-> "22222"],
    [DonorID |-> "D3", DonorName |-> "Chitra", Address |-> "Agra",
     MobileNoDot |-> "", MobileNo |-> ""] >>

\* the spreadsheets the form is mounted on when its derived lists are examined
DataSheets == {
    MainSheet,
    [options |-> PairingOptions, expenses |-> CatalogExample, donors |-> MobileDonors],
    [options |-> SheetOptions, expenses |-> CatalogRepeated, donors |-> SheetDonors] }

\* what can happen to one HTTP exchange
NetErr == [kind |-> "neterr"]
HttpErr == [kind |-> "http", status |-> 500]
BadJson == [kind |-> "badjson"]
Body(envelope) == [kind |-> "body", body |-> envelope]

Success(data) == [success |-> TRUE, data |-> data]
Failure(message) == [success |-> FALSE, message |-> message]
FailureNoMessage == [success |-> FALSE]

TransportFailures == {NetErr, HttpErr, BadJson}

\* the outcomes of a read whose rows are data
ReadOutcomes(data) == TransportFailures \cup {Body(Success(data)), Body(Failure("Sheet error"))}

\* the outcomes of the write of a record with the given id (makeRequest treats
\* the three transport failures alike, one of them stands for all here)
WriteOutcomes(id) ==
    {NetErr, Body(Success([id |-> id])), Body(Failure("Sheet error")), Body(FailureNoMessage)}

(***************************************************************************)
(* ApiService                                                              *)
(***************************************************************************)
\* `HTTP error! status: ${response.status}`
HttpErrorMessage(status) ==
    CASE status = 500 -> "HTTP error! status: 500"
      [] OTHER -> "HTTP error! status: ?"

\* makeRequest without its catch block: a transport failure rejects the promise
makeRequestRethrows(outcome) ==
    CASE outcome.kind = "neterr" -> [rejected |-> TRUE, message |-> "Failed to fetch"]
      [] outcome.kind = "http" -> [rejected |-> TRUE, message |-> HttpErrorMessage(outcome.status)]
      [] outcome.kind = "badjson" -> [rejected |-> TRUE, message |-> "Unexpected token < in JSON"]
      [] OTHER -> outcome.body

\* ApiService.makeRequest: the envelope returned for a transport outcome
makeRequest(outcome) ==
    CASE outcome.kind = "neterr" -> [success |-> FALSE, message |-> "Failed to fetch"]
      [] outcome.kind = "http" -> [success |-> FALSE, message |-> HttpErrorMessage(outcome.status)]
      [] outcome.kind = "badjson" -> [success |-> FALSE, message |-> "Unexpected token < in JSON"]
      [] OTHER -> outcome.body

Reads == {"getOptions", "getExpenses", "getDonors", "getBookings"}

\* the rows the sheet serves for a read action
SheetRows(read) ==
    CASE read = "getOptions" -> sheet.options
      [] read = "getExpenses" -> sheet.expenses
      [] read = "getDonors" -> sheet.donors
      [] OTHER -> backend

\* envelope.message, undefined when the key is absent
MessageOf(envelope) == IF "message" \in DOMAIN envelope THEN envelope.message ELSE Undefined

\* res.success && res.data
HasData(envelope) == "success" \in DOMAIN envelope /\ envelope.success /\ "data" \in DOMAIN envelope

(***************************************************************************)
(* BookingForm: derived values                                             *)
(***************************************************************************)
defaultValues == [date |-> Today, fromDepartment |-> Undefined, toDepartment |-> Undefined,
                  personalAccount |-> Undefined, donorDetails |-> Undefined,
                  category |-> Undefined, item |-> Undefined, detail |-> Undefined,
                  particulars |-> "", amount |-> "0"]

Truthy(s) == ~Falsy(s)

RECURSIVE Distinct(_)
\* [...new Set(seq)]: the first occurrence of each element, in order
Distinct(seq) ==
    IF seq = <<>> THEN <<>>
    ELSE LET front == Distinct(SubSeq(seq, 1, Len(seq) - 1))
             last == seq[Len(seq)]
         IN IF last \in Range(front) THEN front ELSE Append(front, last)

\* getUniqueOptions(field)
getUniqueOptions(field) ==
    Distinct(SelectSeq([i \in 1..Len(options) |-> options[i][field]], Truthy))

IsBooksExpense(opt) == opt.Department = "Books Dasosmi" /\ opt.Type = "Expense"

\* getFilteredCategories()
getFilteredCategories ==
    LET rows == SelectSeq(options, IsBooksExpense)
    IN SelectSeq([i \in 1..Len(rows) |-> rows[i].Category], Truthy)

\* the item names offered by the Items select
ItemOptions == Distinct(SelectSeq([i \in 1..Len(expenses) |-> expenses[i].Items], Truthy))

\* getDetailsForItem(selectedItem)
getDetailsForItem(selectedItem) ==
    LET OfItem(exp) == exp.Items = selectedItem
        rows == SelectSeq(expenses, OfItem)
    IN SelectSeq([i \in 1..Len(rows) |-> rows[i].Details], Truthy)

showCategory == form.fromDepartment = "Books-Dasosmi"
showItemsDetails == form.fromDepartment = "Expenses-Dasosmi"
\* the donor field shown for the one department only
showDonorDetailsDasosmiOnly == form.fromDepartment = "Dasosmi"

showDonorDetails == form.fromDepartment = "Dasosmi" \/ form.fromDepartment = "Corporate Dasosmi"
showPersonalAccount == form.toDepartment = "Personal Account"

\* donor['Mobile No.'] || donor['Mobile No'] || 'No Mobile'
MobileShown(donor) == OrElse(OrElse(donor.MobileNoDot, donor.MobileNo), "No Mobile")

\* the text of the donor combobox button (template literal, as its parts)
DonorLabel(id) ==
    IF Truthy(id) /\ \E i \in 1..Len(donors) : donors[i].DonorID = id
    THEN LET donor == donors[CHOOSE i \in 1..Len(donors) :
                               /\ donors[i].DonorID = id
                               /\ \A j \in 1..(i - 1) : donors[j].DonorID # id]
         IN <<donor.DonorName, " - ", MobileShown(donor)>>
    ELSE <<"Select donor...">>

\* the text of one entry of the donor list in the combobox
DonorEntry(donor) == <<donor.DonorName, " - ", MobileShown(donor), " - ", donor.Address>>

\* the text of one entry of the donor list in the plain select of
\* components/BookingForm.tsx
DonorSelectEntry(donor) == <<donor.DonorName, " - ", donor.MobileNoDot, " - ", donor.Address>>

\* the schema without its rules for particulars and amount
InvalidFieldsLax(values) ==
    {f \in {"date"} : values.date = NoDate}
    \cup {f \in {"fromDepartment", "toDepartment"} : Falsy(values[f])}

\* the schema with `amount` checked as a positive number only
InvalidFieldsPositive(values) ==
    {f \in {"date"} : values.date = NoDate}
    \cup {f \in {"fromDepartment", "toDepartment", "particulars"} : Falsy(values[f])}
    \cup {f \in {"amount"} : CoerceNumber(values.amount).nan
                             \/ CoerceNumber(values.amount).mills <= 0}

\* bookingSchema: the fields that fail validation
InvalidFields(values) ==
    {f \in {"date"} : values.date = NoDate}
    \cup {f \in {"fromDepartment", "toDepartment", "particulars"} : Falsy(values[f])}
    \cup {f \in {"amount"} : CoerceNumber(values.amount).nan
                             \/ CoerceNumber(values.amount).mills < MinAmount}

Valid(values) == InvalidFields(values) = {}

\* formState.errors: the fields showing a FormMessage (set by handleSubmit,
\* re-validated field by field on change once the form was submitted)
errors == IF isSubmitted THEN InvalidFields(form) ELSE {}

\* onSubmit: the record sent for the validated values
bookingData(id, data) ==
    [id |-> id,
     date |-> format(data.date),
     fromDepartment |-> data.fromDepartment,
     toDepartment |-> data.toDepartment,
     personalAccount |-> OrElse(data.personalAccount, ""),
     donorDetails |-> OrElse(data.donorDetails, ""),
     category |-> OrElse(data.category, ""),
     item |-> OrElse(data.item, ""),
     detail |-> OrElse(data.detail, ""),
     particulars |-> data.particulars,
     amount |-> CoerceNumber(data.amount).mills]

\* the submit button without its disabled attribute
ButtonAlwaysEnabled == TRUE

\* the submit button: disabled={submitting}
ButtonEnabled == ~submitting

\* the form is on screen
\* the form rendered without the loading guard
RenderedAlways == TRUE

Rendered == ~loading

Pending == [pending |-> TRUE]
Released == [released |-> TRUE]

ErrorToast(description) == [title |-> "Error", description |-> description]
SuccessToast(id) == [title |-> "Success", description |-> "Booking saved successfully with ID: ", id |-> id]

(***************************************************************************)
(* Initial state: the component has mounted and loadData has issued the    *)
(* four reads of Promise.all.                                              *)
(***************************************************************************)
Mounted ==
    /\ options = <<>>
    /\ expenses = <<>>
    /\ donors = <<>>
    /\ bookings = <<>>
    /\ loading = TRUE
    /\ submitting = FALSE
    /\ form = defaultValues
    /\ isSubmitted = FALSE
    /\ mountRes = [r \in Reads |-> Pending]
    /\ failedReads = {}
    /\ saveReqs = <<>>
    /\ bookingsReqs = <<>>
    /\ result = Pending
    /\ bookingsRes = Pending
    /\ toasts = <<>>
    /\ mountToasts = <<>>
    /\ backend = SheetBookings
    /\ writes = 0

\* every field of the form is edited
Init == Mounted /\ writeLimit = MaxWrites /\ sheet = MainSheet

\* the required fields only are edited, with every amount text, over several
\* submissions
InitFlight == Mounted /\ writeLimit = MaxAttempts /\ sheet = MainSheet

\* the form mounted on one of the spreadsheets: the conditional fields and
\* their option lists
InitData == Mounted /\ writeLimit = MaxWrites /\ sheet \in DataSheets

(***************************************************************************)
(* loadData                                                                *)
(***************************************************************************)
\* one of the four reads settles: makeRequest resolves its promise
ReadSettles(read) ==
    /\ mountRes[read] = Pending
    /\ \E outcome \in ReadOutcomes(SheetRows(read)) :
          mountRes' = [mountRes EXCEPT ![read] = makeRequest(outcome)]
    /\ UNCHANGED <<options, expenses, donors, bookings, loading, submitting, form,
                   isSubmitted, failedReads, saveReqs, bookingsReqs, result, bookingsRes, toasts,
                   mountToasts, backend, writes, writeLimit, sheet>>

\* the slot after `if (res.success && res.data) set(res.data)`
SlotAfter(slot, res) == IF HasData(res) THEN res.data ELSE slot

\* a promise that rejected instead of resolving to an envelope
Rejected(res) == "rejected" \in DOMAIN res

Settled(res) == res # Pending /\ res # Released

\* a join that settles with the first promise to settle
PromiseRace == \E r \in Reads : Settled(mountRes[r])

\* Promise.all([...]) settles: one promise rejected, or all are fulfilled
PromiseAll ==
    \/ \E r \in Reads : Rejected(mountRes[r])
    \/ \A r \in Reads : Settled(mountRes[r])

\* the continuation of `await Promise.all([...])`: the try body, or the
\* catch block when a promise rejected, then the finally block
LoadDataJoin ==
    /\ loading
    /\ PromiseAll
    /\ IF \E r \in Reads : Rejected(mountRes[r])
       THEN /\ mountToasts' = Append(mountToasts, ErrorToast("Failed to load data from server"))
            /\ UNCHANGED <<options, expenses, donors, bookings>>
       ELSE /\ options' = SlotAfter(options, mountRes["getOptions"])
            /\ expenses' = SlotAfter(expenses, mountRes["getExpenses"])
            /\ donors' = SlotAfter(donors, mountRes["getDonors"])
            /\ bookings' = SlotAfter(bookings, mountRes["getBookings"])
            /\ UNCHANGED mountToasts
    /\ failedReads' = {r \in Reads : Settled(mountRes[r]) /\ (Rejected(mountRes[r]) \/ ~mountRes[r].success)}
    /\ mountRes' = [r \in Reads |-> Released]
    /\ loading' = FALSE
    /\ UNCHANGED <<submitting, form, isSubmitted, saveReqs, bookingsReqs, result, bookingsRes, toasts,
                   backend, writes, writeLimit, sheet>>

(***************************************************************************)
(* Field edits (field.onChange)                                            *)
(***************************************************************************)
\* a request of a submission is outstanding
InFlight == saveReqs # <<>> \/ bookingsReqs # <<>>

\* field.onChange(value) on a field that is on screen
Edit(field, value) ==
    /\ Rendered
    /\ InFlight \/ writes < writeLimit
    /\ form[field] # value
    /\ InFlight => field \in InFlightFields
    /\ form' = [form EXCEPT ![field] = value]
    /\ UNCHANGED <<options, expenses, donors, bookings, loading, submitting,
                   isSubmitted, mountRes, failedReads, saveReqs, bookingsReqs, result,
                   bookingsRes, toasts, mountToasts, backend, writes, writeLimit, sheet>>

\* Calendar onSelect: a day, or undefined when the selected day is clicked again
SelectDate == \E d \in Days \cup {NoDate} : Edit("date", d)

SelectFromDepartment == \E dept \in Range(getUniqueOptions("FromDepartment")) : Edit("fromDepartment", dept)

SelectToDepartment == \E dept \in Range(getUniqueOptions("ToDepartment")) : Edit("toDepartment", dept)

SelectPersonalAccount ==
    /\ showPersonalAccount
    /\ \E account \in Range(getUniqueOptions("PersonalAccountDetails")) : Edit("personalAccount", account)

SelectDonor ==
    /\ showDonorDetails
    /\ \E donor \in Range(donors) : Edit("donorDetails", donor.DonorID)

SelectCategory ==
    /\ showCategory
    /\ \E category \in Range(getFilteredCategories) : Edit("category", category)

SelectItem ==
    /\ showItemsDetails
    /\ \E itemName \in Range(ItemOptions) : Edit("item", itemName)

SelectDetail ==
    /\ showItemsDetails
    /\ Truthy(form.item)
    /\ \E detail \in Range(getDetailsForItem(form.item)) : Edit("detail", detail)

TypeParticulars == \E text \in ParticularsInputs : Edit("particulars", text)

TypeAmount == \E text \in AmountInputs : Edit("amount", text)

\* the amount input, restricted to one rejected and one accepted text
TypeAmountBrief == \E text \in {"0", "0.01"} : Edit("amount", text)

(***************************************************************************)
(* Submission                                                              *)
(***************************************************************************)
\* form.handleSubmit(onSubmit) when bookingSchema rejects the values: onSubmit
\* is not called
SubmitInvalid ==
    /\ Rendered
    /\ ButtonEnabled
    /\ ~Valid(form)
    /\ writes < writeLimit
    /\ isSubmitted' = TRUE
    /\ UNCHANGED <<options, expenses, donors, bookings, loading, submitting, form,
                   mountRes, failedReads, saveReqs, bookingsReqs, result, bookingsRes,
                   toasts, mountToasts, backend, writes, writeLimit, sheet>>

\* form.handleSubmit(onSubmit) when the values are valid: onSubmit up to
\* `await apiService.saveBooking(bookingData)`
Submit ==
    /\ Rendered
    /\ ButtonEnabled
    /\ Valid(form)
    /\ writes < writeLimit
    /\ \E id \in Ids : saveReqs' = Append(saveReqs, bookingData(id, form))
    /\ submitting' = TRUE
    /\ isSubmitted' = TRUE
    /\ result' = Pending
    /\ bookingsRes' = Pending
    /\ toasts' = <<>>
    /\ writes' = writes + 1
    /\ UNCHANGED <<options, expenses, donors, bookings, loading, form, mountRes,
                   failedReads, bookingsReqs, mountToasts, backend, writeLimit, sheet>>

\* the row the sheet appends when it answers a write with success
Stored(outcome, record) ==
    IF outcome.kind = "body" /\ outcome.body.success THEN <<[id |-> record.id]>> ELSE <<>>

\* the three defaults written over the current values, the other fields kept
resetValuesMerged == [form EXCEPT !.date = Today, !.particulars = "", !.amount = "0"]

\* form.reset({date: new Date(), particulars: '', amount: 0})
resetValues == [defaultValues EXCEPT !.date = Today, !.particulars = "", !.amount = "0"]

\* the catch block showing its fixed text whatever was thrown
SaveErrorMessageFixed(res) == "Failed to save booking"

\* error instanceof Error ? error.message : 'Failed to save booking', for the
\* error thrown at `throw new Error(result.message || 'Failed to save booking')`
\* or by a rejected request
SaveErrorMessage(res) ==
    IF Rejected(res) THEN res.message
    ELSE OrElse(MessageOf(res), "Failed to save booking")

\* the handler without its finally block
FinallySkipped == UNCHANGED submitting

\* finally { setSubmitting(false) }
Finally == submitting' = FALSE

\* the requests outstanding when a failed request is sent again
AfterAnswerRetried(reqs, res) ==
    IF "success" \in DOMAIN res /\ res.success THEN Tail(reqs) ELSE Append(Tail(reqs), Head(reqs))

\* the requests outstanding after makeRequest returned the answer to the
\* oldest: one fetch per call, the answer is returned whatever it is
AfterAnswer(reqs, res) == Tail(reqs)

\* the re-fetch started without being awaited: the finally block runs at once
RefetchNotAwaited == submitting' = FALSE

\* `await apiService.getBookings()`: onSubmit is suspended before its finally
\* block
RefetchAwaited == UNCHANGED submitting

\* the saveBooking request is answered: onSubmit from `result = await ...`
\* to the next await (success) or through catch and finally (failure)
SaveSettles ==
    /\ saveReqs # <<>>
    /\ \E outcome \in WriteOutcomes(Head(saveReqs).id) :
          LET record == Head(saveReqs)
              res == makeRequest(outcome)
          IN /\ backend' = backend \o Stored(outcome, record)
             /\ saveReqs' = AfterAnswer(saveReqs, res)
             /\ result' = res
             /\ IF ~Rejected(res) /\ res.success
                THEN /\ toasts' = Append(toasts, SuccessToast(record.id))
                     /\ form' = resetValues
                     /\ isSubmitted' = FALSE
                     /\ bookingsReqs' = Append(bookingsReqs, record.id)
                     /\ RefetchAwaited
                ELSE /\ toasts' = Append(toasts, ErrorToast(SaveErrorMessage(res)))
                     /\ Finally
                     /\ UNCHANGED <<form, isSubmitted, bookingsReqs>>
    /\ UNCHANGED <<options, expenses, donors, bookings, loading, mountRes,
                   failedReads, bookingsRes, mountToasts, writes, writeLimit, sheet>>

\* the list view when the re-fetched rows are dropped
BookingsAfterKept(res) == bookings

\* if (bookingsRes.success && bookingsRes.data) setBookings(bookingsRes.data)
BookingsAfter(res) == SlotAfter(bookings, res)

\* the re-fetched rows stored in the donors slot as well
RefetchedSlotsShared(res) ==
    [options |-> options, expenses |-> expenses, donors |-> SlotAfter(donors, res),
     bookings |-> BookingsAfter(res)]

\* the four data slots after the re-fetch continuation: setBookings is the
\* only setter it calls
RefetchedSlots(res) ==
    [options |-> options, expenses |-> expenses, donors |-> donors, bookings |-> BookingsAfter(res)]

\* ApiService.getBookings: GET <endpoint>?action=getBookings through makeRequest
\* (one transport failure stands for the three, as for the write)
getBookingsOutcomes == {NetErr, Body(Success(backend)), Body(Failure("Sheet error"))}

\* the getBookings re-fetch is answered: onSubmit from `bookingsRes = await ...`
\* through the finally block
BookingsSettle ==
    /\ bookingsReqs # <<>>
    /\ \E outcome \in getBookingsOutcomes :
          LET res == makeRequest(outcome)
          IN /\ bookingsRes' = res
             /\ IF Rejected(res)
                THEN /\ toasts' = Append(toasts, ErrorToast(res.message))
                     /\ UNCHANGED <<options, expenses, donors, bookings>>
                ELSE /\ options' = RefetchedSlots(res).options
                     /\ expenses' = RefetchedSlots(res).expenses
                     /\ donors' = RefetchedSlots(res).donors
                     /\ bookings' = RefetchedSlots(res).bookings
                     /\ UNCHANGED toasts
             /\ bookingsReqs' = AfterAnswer(bookingsReqs, res)
    /\ Finally
    /\ UNCHANGED <<loading, form, isSubmitted, mountRes,
                   failedReads, saveReqs, result, mountToasts, backend, writes, writeLimit, sheet>>

Next ==
    \/ \E read \in Reads : ReadSettles(read)
    \/ LoadDataJoin
    \/ SelectDate
    \/ SelectFromDepartment
    \/ SelectToDepartment
    \/ SelectPersonalAccount
    \/ SelectDonor
    \/ SelectCategory
    \/ SelectItem
    \/ SelectDetail
    \/ TypeParticulars
    \/ TypeAmountBrief
    \/ SubmitInvalid
    \/ Submit
    \/ SaveSettles
    \/ BookingsSettle

Spec == Init /\ [][Next]_vars

NextFlight ==
    \/ \E read \in Reads : ReadSettles(read)
    \/ LoadDataJoin
    \/ SelectDate
    \/ SelectFromDepartment
    \/ SelectToDepartment
    \/ TypeParticulars
    \/ TypeAmount
    \/ SubmitInvalid
    \/ Submit
    \/ SaveSettles
    \/ BookingsSettle

SpecFlight == InitFlight /\ [][NextFlight]_vars

\* every request of a submission is answered
SpecFlightFair == SpecFlight /\ WF_vars(SaveSettles) /\ WF_vars(BookingsSettle)

NextData ==
    \/ \E read \in Reads : ReadSettles(read)
    \/ LoadDataJoin
    \/ SelectFromDepartment
    \/ SelectToDepartment
    \/ SelectPersonalAccount
    \/ SelectDonor
    \/ SelectCategory
    \/ SelectItem
    \/ SelectDetail

SpecData == InitData /\ [][NextData]_vars

\* the continuation of the awaited Promise.all runs once the join has settled
SpecMountFair == SpecFlight /\ WF_vars(LoadDataJoin)

(***************************************************************************)
(* Claims                                                                  *)
(***************************************************************************)
\* a saveBooking request is issued in this step
WriteIssued == Len(saveReqs') > Len(saveReqs)

\* the saveBooking request is answered in this step
WriteAnswered == Len(saveReqs') < Len(saveReqs)

\* C1: every write request sent has category non-empty only if fromDepartment
\* is 'Books-Dasosmi', item and detail non-empty only if it is
\* 'Expenses-Dasosmi', donorDetails non-empty only if it is 'Dasosmi' or
\* 'Corporate Dasosmi', and personalAccount non-empty only if toDepartment is
\* 'Personal Account'.
C1_HiddenFieldsEmpty ==
    \A i \in 1..Len(saveReqs) :
        LET req == saveReqs[i]
        IN /\ req.category # "" => req.fromDepartment = "Books-Dasosmi"
           /\ (req.item # "" \/ req.detail # "") => req.fromDepartment = "Expenses-Dasosmi"
           /\ req.donorDetails # "" => req.fromDepartment \in {"Dasosmi", "Corporate Dasosmi"}
           /\ req.personalAccount # "" => req.toDepartment = "Personal Account"

\* C2: at most one saveBooking request is outstanding in every state, and no
\* step taken while the submitting flag is true issues a write.
C2_SingleFlight ==
    /\ [](Len(saveReqs) <= 1)
    /\ [][submitting => ~WriteIssued]_vars

\* a write is outstanding, the flag is up, and the form on screen is valid, so
\* that only the disabled button stands between the user and a second write
C2_Witness ==
    /\ Len(saveReqs) = 1
    /\ submitting
    /\ Valid(form)
    /\ writes < writeLimit

\* the conditions of C3 on the values, in the claim's words
RequiredPresent(values) ==
    /\ values.date # NoDate
    /\ values.fromDepartment \notin {Undefined, ""}
    /\ values.toDepartment \notin {Undefined, ""}
    /\ values.particulars \notin {Undefined, ""}
    /\ ~CoerceNumber(values.amount).nan
    /\ CoerceNumber(values.amount).mills > 0

\* C3: a step that issues a write request or raises the submitting flag is
\* taken only with date present, fromDepartment, toDepartment and particulars
\* non-empty and amount a number greater than 0; a submit with any of these
\* violated leaves the requests and the flag as they were.
C3_ValidationFirst ==
    /\ [][(WriteIssued \/ (~submitting /\ submitting')) => RequiredPresent(form)]_vars
    /\ [][(isSubmitted' /\ ~RequiredPresent(form') /\ ~isSubmitted)
            => (saveReqs' = saveReqs /\ submitting' = submitting /\ writes' = writes)]_vars

\* a submit was rejected for its amount alone: nothing was sent
C3_Witness ==
    /\ isSubmitted
    /\ writes = 0
    /\ errors = {"amount"}
    /\ CoerceNumber(form.amount).nan
    /\ saveReqs = <<>>
    /\ ~submitting

\* the text C4 expects on screen for a failed result
ExpectedFailureText(res) ==
    IF "message" \in DOMAIN res /\ res.message # "" THEN res.message ELSE "Failed to save booking"

\* C4: the step that handles a failed write (transport error or success=false)
\* leaves every form value as it was and shows the returned message, or
\* 'Failed to save booking' when none was returned.
C4_FailureKeepsValues ==
    [][(WriteAnswered /\ ~result'.success)
         => /\ form' = form
            /\ toasts' = Append(toasts, [title |-> "Error", description |-> ExpectedFailureText(result')])]_vars

\* a write failed with a returned message and the entered values are still there
C4_Witness ==
    /\ result = [success |-> FALSE, message |-> "Sheet error"]
    /\ toasts = <<[title |-> "Error", description |-> "Sheet error"]>>
    /\ ~submitting
    /\ form.fromDepartment = "Books-Dasosmi"
    /\ form.category = "Stationery"
    /\ form.particulars = "rent"
    /\ form.amount = "0.01"

\* C5: the step that handles a successful write leaves the form at its
\* defaults: date today, particulars empty, amount zero, every other field unset.
C5_SuccessResets ==
    [][(WriteAnswered /\ result'.success)
         => /\ form'.date = Today
            /\ form'.particulars = ""
            /\ form'.amount = "0"
            /\ \A f \in {"fromDepartment", "toDepartment", "personalAccount",
                         "donorDetails", "category", "item", "detail"} : form'[f] = Undefined]_vars

\* a record with another date, departments and an optional field was written
\* and the form is back at its defaults
C5_Witness ==
    /\ result # Pending
    /\ result.success
    /\ bookingsReqs # <<>>
    /\ \E i \in 1..Len(backend) : backend[i].id = Head(bookingsReqs)
    /\ form = defaultValues

\* the one variant the gateway shows its callers: success=false, a message
\* string, no data
IsRequestFailed(envelope) ==
    /\ ~Rejected(envelope)
    /\ "success" \in DOMAIN envelope
    /\ envelope.success = FALSE
    /\ "message" \in DOMAIN envelope
    /\ envelope.message \in STRING
    /\ "data" \notin DOMAIN envelope

\* C6: makeRequest turns a connection failure, a non-2xx status and an
\* unparseable body into an envelope with success=false, a message and no
\* data, and no promise handed to loadData or onSubmit is ever rejected.
C6_GatewayNeverRaises ==
    /\ \A outcome \in TransportFailures : IsRequestFailed(makeRequest(outcome))
    /\ \A r \in Reads :
          Settled(mountRes[r]) =>
              /\ ~Rejected(mountRes[r])
              /\ ~mountRes[r].success => IsRequestFailed(mountRes[r])
    /\ result # Pending => ~Rejected(result)
    /\ bookingsRes # Pending =>
          /\ ~Rejected(bookingsRes)
          /\ ~bookingsRes.success => IsRequestFailed(bookingsRes)

\* three mount reads met the three transport failures and each came back as a
\* failure envelope
C6_Witness ==
    /\ mountRes["getOptions"] = [success |-> FALSE, message |-> "Failed to fetch"]
    /\ mountRes["getExpenses"] = [success |-> FALSE, message |-> "HTTP error! status: 500"]
    /\ mountRes["getDonors"] = [success |-> FALSE, message |-> "Unexpected token < in JSON"]
    /\ loading

ReferenceReads == {"getOptions", "getExpenses", "getDonors"}

SlotOf(read) ==
    CASE read = "getOptions" -> options
      [] read = "getExpenses" -> expenses
      [] OTHER -> donors

\* C7: when exactly one of the three reference reads failed, its slot is the
\* empty list, an error notification was fired, and the other two slots hold
\* the rows their reads returned.
C7_IndependentReadFailures ==
    (~loading /\ Cardinality(failedReads \cap ReferenceReads) = 1) =>
        \A r \in ReferenceReads :
            IF r \in failedReads
            THEN SlotOf(r) = <<>> /\ mountToasts # <<>>
            ELSE SlotOf(r) = SheetRows(r)

\* the re-fetch of a submission is answered in this step
RefetchAnswered == Len(bookingsReqs') < Len(bookingsReqs)

Shows(rows, id) == \E i \in 1..Len(rows) : rows[i].id = id

C9_AmountThreshold ==
    /\ \A i \in 1..Len(saveReqs) : saveReqs[i].amount >= 10
    /\ (/\ Rendered
        /\ ~submitting
        /\ writes < writeLimit
        /\ form.date # NoDate
        /\ form.fromDepartment \notin {Undefined, ""}
        /\ form.toDepartment \notin {Undefined, ""}
        /\ form.particulars \notin {Undefined, ""})
       => (ENABLED Submit <=> (/\ ~CoerceNumber(form.amount).nan
                               /\ CoerceNumber(form.amount).mills >= 10))

\* a record with amount 0.01 is on its way
C9_Witness ==
    /\ saveReqs # <<>>
    /\ Head(saveReqs).amount = 10
    /\ form.amount = "0.01"

\* C10: the submitting flag is true exactly while a request of a submission is
\* outstanding; once no request is outstanding a valid form can be submitted
\* again; and whenever the flag is true it becomes false again once the
\* requests of the submission are answered.
C10_FlagReturns ==
    /\ [](submitting <=> InFlight)
    /\ []((~loading /\ ~InFlight /\ Valid(form) /\ writes < writeLimit) => ENABLED Submit)
    /\ submitting ~> ~submitting

\* a second submission is under way after the first one ended in failure
C10_Witness ==
    /\ writes = 2
    /\ submitting
    /\ Len(saveReqs) = 1
    /\ backend = SheetBookings


(***************************************************************************)
(* C11: the four mount reads are outstanding together and are joined: the  *)
(* loading flag is true (and the form not rendered) while one of them is   *)
(* pending, it falls only in a step that finds all four settled, whatever  *)
(* their order and their mix of success and failure, and once all four     *)
(* have settled it does fall.                                              *)
(***************************************************************************)
AllReadsSettled == \A r \in Reads : Settled(mountRes[r])

C11_LoadingUntilJoined ==
    /\ []((\E r \in Reads : mountRes[r] = Pending) => (loading /\ ~Rendered))
    /\ [][(loading /\ ~loading') => AllReadsSettled]_vars
    /\ AllReadsSettled ~> ~loading

\* the form is on screen after a mount in which the catalog read failed and
\* the options read succeeded
C11_Witness ==
    /\ ~loading
    /\ Rendered
    /\ failedReads = {"getExpenses"}
    /\ options # <<>>
    /\ expenses = <<>>


(***************************************************************************)
(* C12: no request is retried.  A write request goes out only in a step    *)
(* that submits valid values, exactly one per such step, carrying the      *)
(* record built from the values of that step; the step that answers it     *)
(* takes it off the wire and sends nothing in its place, so a request is   *)
(* outstanding only for a submission that has no answer yet.  A mount read *)
(* that was answered is never pending again, and a list re-fetch goes out  *)
(* only with a successful write answer and is dropped once answered.       *)
(***************************************************************************)
WriteAnswerHandled == result = Pending /\ result' # Pending

RefetchIssued == Len(bookingsReqs') > Len(bookingsReqs)

C12_NoRetry ==
    /\ [](saveReqs # <<>> => (result = Pending /\ Len(saveReqs) = 1))
    /\ [](bookingsReqs # <<>> => (bookingsRes = Pending /\ Len(bookingsReqs) = 1))
    /\ [][WriteIssued =>
            /\ Valid(form)
            /\ ~submitting
            /\ writes' = writes + 1
            /\ \E id \in Ids : saveReqs' = Append(saveReqs, bookingData(id, form))]_vars
    /\ [][WriteAnswerHandled => (saveReqs' = Tail(saveReqs) /\ writes' = writes)]_vars
    /\ [][RefetchIssued =>
            /\ WriteAnswerHandled
            /\ result'.success
            /\ bookingsReqs' = Append(bookingsReqs, Head(saveReqs).id)]_vars
    /\ [][(bookingsRes = Pending /\ bookingsRes' # Pending) => bookingsReqs' = Tail(bookingsReqs)]_vars
    /\ [][\A r \in Reads : mountRes[r] # Pending => mountRes'[r] # Pending]_vars

\* a second submission is on the wire after the first one failed: the failed
\* request is gone and the user has submitted again
C12_Witness ==
    /\ writes = 2
    /\ Len(saveReqs) = 1
    /\ result = Pending
    /\ backend = SheetBookings


(***************************************************************************)
(* C13: the four visibility flags are functions of the selected source and *)
(* destination departments alone, by exact match of the literals: category *)
(* for 'Books-Dasosmi', item and detail for 'Expenses-Dasosmi', donor for  *)
(* 'Dasosmi' or 'Corporate Dasosmi', personal account for the destination  *)
(* 'Personal Account'; an empty or unset department leaves its flags       *)
(* false, and a conditional field takes input only while its flag is true. *)
(***************************************************************************)
ExpectedFlags(from, to) ==
    [category |-> from = "Books-Dasosmi",
     itemsDetails |-> from = "Expenses-Dasosmi",
     donor |-> from \in {"Dasosmi", "Corporate Dasosmi"},
     personal |-> to = "Personal Account"]

FlagsShown ==
    [category |-> showCategory, itemsDetails |-> showItemsDetails,
     donor |-> showDonorDetails, personal |-> showPersonalAccount]

C13_FlagsByExactMatch ==
    /\ FlagsShown = ExpectedFlags(form.fromDepartment, form.toDepartment)
    /\ Falsy(form.fromDepartment) => (~showCategory /\ ~showItemsDetails /\ ~showDonorDetails)
    /\ Falsy(form.toDepartment) => ~showPersonalAccount
    /\ (ENABLED SelectCategory) => form.fromDepartment = "Books-Dasosmi"
    /\ (ENABLED SelectItem) => form.fromDepartment = "Expenses-Dasosmi"
    /\ (ENABLED SelectDonor) => form.fromDepartment \in {"Dasosmi", "Corporate Dasosmi"}
    /\ (ENABLED SelectPersonalAccount) => form.toDepartment = "Personal Account"

\* the source is 'Corporate Dasosmi' and the destination 'Personal Account',
\* with a category left over from an earlier source department
C13_Witness ==
    /\ form.fromDepartment = "Corporate Dasosmi"
    /\ form.toDepartment = "Personal Account"
    /\ form.category = "Stationery"
    /\ showDonorDetails
    /\ showPersonalAccount
    /\ ~showCategory
    /\ ~showItemsDetails


(***************************************************************************)
(* C14: while the source department is 'Books-Dasosmi', the category       *)
(* options offered are the distinct non-empty categories of the loaded     *)
(* rows whose department is 'Books Dasosmi' and whose type is 'Expense':   *)
(* the same categories, each offered once.                                 *)
(***************************************************************************)
IsDuplicateFree(seq) == \A i, j \in 1..Len(seq) : seq[i] = seq[j] => i = j

BooksExpenseCategories ==
    {options[i].Category : i \in {j \in 1..Len(options) :
        options[j].Department = "Books Dasosmi" /\ options[j].Type = "Expense"}} \ {"", Undefined}

C14_CategoryOptions ==
    form.fromDepartment = "Books-Dasosmi" =>
        /\ Range(getFilteredCategories) = BooksExpenseCategories
        /\ IsDuplicateFree(getFilteredCategories)

(***************************************************************************)
(* C15: while an item is chosen, the detail options offered are the        *)
(* distinct detail strings of the loaded catalog rows whose item is the    *)
(* chosen one, each offered once, and none when no row matches.            *)
(***************************************************************************)
DetailsOfItem(itemName) ==
    {expenses[i].Details : i \in {j \in 1..Len(expenses) : expenses[j].Items = itemName}} \ {"", Undefined}

C15_DetailOptions ==
    (showItemsDetails /\ Truthy(form.item)) =>
        /\ Range(getDetailsForItem(form.item)) = DetailsOfItem(form.item)
        /\ IsDuplicateFree(getDetailsForItem(form.item))

(***************************************************************************)
(* C16: wherever a donor's mobile number is displayed, in the label of the *)
(* selected donor and in every entry of the donor list, it is the value    *)
(* under 'Mobile No.' when that is non-empty, else the value under         *)
(* 'Mobile No' when that is non-empty, else 'No Mobile'.                   *)
(***************************************************************************)
FirstMobile(donor) ==
    IF donor.MobileNoDot # "" THEN donor.MobileNoDot
    ELSE IF donor.MobileNo # "" THEN donor.MobileNo
    ELSE "No Mobile"

C16_MobileEitherSpelling ==
    showDonorDetails =>
        \A i \in 1..Len(donors) :
            /\ DonorEntry(donors[i])[3] = FirstMobile(donors[i])
            /\ DonorSelectEntry(donors[i])[3] = FirstMobile(donors[i])
            /\ form.donorDetails = donors[i].DonorID =>
                   DonorLabel(form.donorDetails)[3] = FirstMobile(donors[i])


(***************************************************************************)
(* C17: the reference data is loaded once and is read-only afterwards.     *)
(* Each reference read is outstanding once, from the mount until it is     *)
(* answered, and never again; once loading has ended no step changes the   *)
(* options, the expense catalog or the donors, whatever the user edits or  *)
(* submits and however the write and the re-fetch are answered.            *)
(***************************************************************************)
C17_ReferenceDataReadOnly ==
    /\ [][~loading => (options' = options /\ expenses' = expenses /\ donors' = donors)]_vars
    /\ [][\A r \in ReferenceReads : mountRes'[r] = Pending => mountRes[r] = Pending]_vars
    /\ [](~loading => \A r \in ReferenceReads : mountRes[r] = Released)

\* a booking was saved and the list re-fetched with success while the
\* reference data loaded at mount is still in place
C17_Witness ==
    /\ ~loading
    /\ writes > 0
    /\ ~InFlight
    /\ HasData(bookingsRes)
    /\ bookings = backend
    /\ options = sheet.options
    /\ expenses = sheet.expenses
    /\ donors = sheet.donors


(***************************************************************************)
(* C18: every failure is surfaced as a notification and none escapes: a    *)
(* mount read that failed, a write that failed and a submission rejected   *)
(* by validation each leave a notification with a title and a message, and *)
(* no request leaves a rejected promise to loadData or onSubmit.           *)
(***************************************************************************)
IsNotification(toast) == Truthy(toast.title) /\ Truthy(toast.description)

Notified(fired) == \E i \in 1..Len(fired) : IsNotification(fired[i])

C18_EveryFailureNotified ==
    /\ \A r \in Reads : ~Rejected(mountRes[r])
    /\ ~Rejected(result) /\ ~Rejected(bookingsRes)
    /\ (~loading /\ failedReads # {}) => Notified(mountToasts)
    /\ (result # Pending /\ ~result.success) => Notified(toasts)
    /\ (isSubmitted /\ errors # {} /\ writes = 0) => Notified(toasts)


(***************************************************************************)
(* C19: a submission that passed validation ends with exactly one          *)
(* notification: none is shown while its write is outstanding, the success *)
(* notification alone from a successful write answer on, through the       *)
(* re-fetch and whatever its answer, or one error notification alone after *)
(* a failed write.                                                         *)
(***************************************************************************)
Succeeded(res) == "success" \in DOMAIN res /\ res.success

TitlesShown == [i \in 1..Len(toasts) |-> toasts[i].title]

C20_LockedThroughRefetch ==
    /\ [](bookingsReqs # <<>> => (submitting /\ ~ENABLED Submit /\ Succeeded(result)))
    /\ [][bookingsReqs # <<>> => ~WriteIssued]_vars
    /\ [][RefetchIssued => form' = resetValues]_vars
    /\ [][(RefetchAnswered /\ ~Succeeded(bookingsRes')) => (bookings' = bookings /\ form' = form)]_vars

\* the re-fetch after a successful write failed: the list still shows the
\* rows loaded at mount, the form holds the reset values, the stored row is
\* not displayed
C20_Witness ==
    /\ writes > 0
    /\ ~InFlight
    /\ ~submitting
    /\ Succeeded(result)
    /\ bookingsRes # Pending
    /\ ~Succeeded(bookingsRes)
    /\ bookings = SheetBookings
    /\ bookings # backend
    /\ form = resetValues


(***************************************************************************)
(* C21: no write request is issued while the loading flag is true.  While  *)
(* loading, the form is not on screen: it can be neither submitted nor     *)
(* edited, no write is outstanding and none was sent; a write goes out     *)
(* only in a step taken with loading false, and once loading is false it   *)
(* stays false.                                                            *)
(***************************************************************************)
C21_NoWriteWhileLoading ==
    /\ [](loading => (saveReqs = <<>> /\ writes = 0 /\ ~submitting /\ ~isSubmitted))
    /\ [](loading => (~ENABLED Submit /\ ~ENABLED SubmitInvalid))
    /\ [][WriteIssued => (~loading /\ ~loading')]_vars
    /\ [][loading => form' = form]_vars
    /\ [][~loading => ~loading']_vars

\* a write is on the wire after a mount whose donors read failed
C21_Witness ==
    /\ ~loading
    /\ Len(saveReqs) = 1
    /\ writes = 1
    /\ "getDonors" \in failedReads
    /\ "getOptions" \notin failedReads


(***************************************************************************)
(* C22: in every write request on the wire, a non-empty detail belongs to  *)
(* the record's item: some row of the loaded expense catalog has that item *)
(* and that detail.                                                        *)
(***************************************************************************)
DetailBelongs(record) ==
    Truthy(record.detail) =>
        \E i \in 1..Len(expenses) :
            expenses[i].Items = record.item /\ expenses[i].Details = record.detail

C22_DetailOfItem == \A i \in 1..Len(saveReqs) : DetailBelongs(saveReqs[i])

====
